---- MODULE Spec2Model ----
(***************************************************************************)
(* Model of the resilience-and-scheduling layer of LaunchBot:              *)
(*   handlers/error_handler.py  RateLimiter, retry_with_backoff,           *)
(*                              safe_api_call, CircuitBreaker, HealthCheck *)
(*   handlers/launch_alerts.py  process_launch_alerts (LaunchEventLoop)    *)
(*   handlers/alerts.py         send_market_alerts (MarketAlertLoop)       *)
(*   handlers/report.py         send_weekly_reports, monitor_price_drops   *)
(*   utils/event_tracker.py     get_events_for_alert, mark_event_notified  *)
(*                                                                         *)
(* Each component has its own specification (SpecRL, SpecRLFair, SpecCB,   *)
(* SpecRetry, SpecExec, SpecLaunch, SpecWeekly, SpecReentry; SpecCycles    *)
(* and SpecCyclesFair run any one of the four alert loops); a              *)
(* specification leaves the other components' variables at their initial   *)
(* values.                                                                 *)
(***************************************************************************)
EXTENDS Integers, Sequences, FiniteSets, TLC

VARIABLES
    now,                \* time.time(): the clock read by the limiter and the breaker
    \* ---- RateLimiter (one bucket)
    tokens,             \* self.tokens, in units of 1/Scale token
    last_update,        \* self.last_update
    lock,               \* self.lock: the caller holding it, or NoCaller
    waiters,            \* self.lock's FIFO queue of callers blocked in acquire
    rlpc,               \* per caller: position inside acquire()
    wake,               \* per caller: deadline of its asyncio.sleep(wait_time)
    granted,            \* history: number of acquire() calls that have returned
    \* ---- CircuitBreaker (one breaker)
    state,              \* self.state
    failure_count,      \* self.failure_count
    last_failure_time,  \* self.last_failure_time
    cbpc,               \* per caller: position inside call()
    admitted,           \* history, per caller: breaker state right after admission
    outcome,            \* history, per caller: how its last call() ended
    consec,             \* history: consecutive calls whose operation raised a counted exception
    trial,              \* history: the caller whose admission moved open -> half_open
    \* ---- retry_with_backoff (one decorated call)
    cfg,                \* the decorator's arguments
    attempt,            \* loop variable of "for attempt in range(max_retries + 1)"
    rpc,                \* position inside the wrapper
    invocations,        \* history: number of times func was invoked
    inflight,           \* history: number of invocations of func in progress
    waits,              \* history: the delays passed to sleep, in order
    results,            \* history: outcome of each invocation, in order
    last_exception,     \* last_exception (the invocation that raised it, 0 = None)
    raised,             \* history: exception that left the wrapper (invocation, 0 = none)
    \* ---- process_launch_alerts (one task) and the launch_events table
    hour,               \* wall-clock time in hours since midnight of day 0
    stored,             \* launch_events: ids of the rows present
    notified,           \* launch_events.notified, per event id
    scored,             \* launch_events rows whose risk fields were written
    lpc,                \* position inside the loop body
    passes,             \* history: number of passes begun
    active_users,       \* active_users of the current pass
    events_to_alert,    \* events of the current pass not yet processed
    users_watching,     \* users_watching of the current event, not yet sent to
    delivered,          \* history: per event and user, send_message calls that succeeded
    event_date,         \* launch_events.event_date, per event id (a day number)
    watch,              \* watchlist table: per user, the assets watched
    \* ---- safe_api_call (one service) and the health registry
    sapc,               \* per caller: position inside safe_api_call's async wrapper
    net_calls,          \* history: invocations of the service's network operation
    ok_calls,           \* history: outbound calls that returned a result
    failed_calls,       \* history: outbound calls that ended in an exception
    health,             \* health_check.services: the record of each registered service
    fail_run,           \* history: per service, mark_failure calls since its last mark_success
    marked,             \* history: the latest mark call, <<kind, service name>>
    \* ---- send_market_alerts (per started task)
    mpc,                \* position inside the loop body ("off": not started)
    m_active_users,     \* users of the current pass not yet processed
    m_watchlist,        \* watchlist items of the current user not yet processed
    m_passes,           \* history: number of passes begun
    m_failed,           \* history: a candidate of the current pass has raised
    \* ---- monitor_price_drops (one task)
    dpc,                \* position inside the loop body
    d_active_users,     \* users of the current pass not yet processed
    d_passes,           \* history: number of passes begun
    d_failed,           \* history: a candidate of the current pass has raised
    \* ---- send_weekly_reports (one task) and the report bookkeeping
    wtime,              \* datetime.now(), in ticks since Monday 00:00 of week 0
    wpc,                \* position inside the loop body
    w_now,              \* the local variable now of the current iteration
    w_active_users,     \* users of the current pass not yet processed
    last_report,        \* per user: date of the last report marked sent, or NoReport
    portfolio,          \* per user: whether the portfolio has positions
    report_days,        \* history, per user: the days on which a report was delivered
    w_checks,           \* history: the times at which a reporting pass began
    w_failed,           \* history: a candidate of the current pass has raised
    mark_calls,         \* history, per user: calls of mark_weekly_report_sent
    has_portfolio,      \* history, per user: has_portfolio of the last report generated
    \* ---- the global tables RATE_LIMITERS and CIRCUIT_BREAKERS and their lookups
    rl_objects,         \* RateLimiter objects constructed so far (object k is the k-th)
    cb_objects,         \* CircuitBreaker objects constructed so far
    rl_got,             \* history, per name: the objects get_rate_limiter returned
    cb_got,             \* history, per name: the objects get_circuit_breaker returned
    rl_taken,           \* per RateLimiter object: tokens taken from it
    cb_failed           \* per CircuitBreaker object: failures counted on it

rlvars    == <<tokens, last_update, lock, waiters, rlpc, wake, granted>>
cbvars    == <<state, failure_count, last_failure_time, cbpc, admitted, outcome, consec, trial>>
retryvars == <<cfg, attempt, rpc, invocations, inflight, waits, results, last_exception, raised>>
launchvars == <<hour, stored, notified, scored, lpc, passes, active_users,
                events_to_alert, users_watching, delivered,
                event_date, watch>>
execvars  == <<sapc, net_calls, ok_calls, failed_calls, health, fail_run, marked>>
marketvars == <<mpc, m_active_users, m_watchlist, m_passes, m_failed>>
dropvars  == <<dpc, d_active_users, d_passes, d_failed>>
weeklyvars == <<wtime, wpc, w_now, w_active_users, last_report, portfolio,
                report_days, w_checks, w_failed, mark_calls, has_portfolio>>
cyclevars == <<marketvars, dropvars, weeklyvars>>
regvars   == <<rl_objects, cb_objects, rl_got, cb_got, rl_taken, cb_failed>>
vars      == <<now, rlvars, cbvars, retryvars, launchvars, execvars, cyclevars, regvars>>

\* what each component's actions leave alone
notRL     == <<cbvars, retryvars, launchvars, execvars, cyclevars, regvars>>
notCB     == <<rlvars, retryvars, launchvars, execvars, cyclevars, regvars>>
notRetry  == <<rlvars, cbvars, launchvars, execvars, cyclevars, regvars>>
notLaunch == <<now, rlvars, cbvars, retryvars, execvars, cyclevars, regvars>>
notClock  == <<retryvars, launchvars, execvars, cyclevars, regvars>>
notExec   == <<now, cbvars, retryvars, launchvars, cyclevars, regvars>>
notCycles == <<now, rlvars, cbvars, retryvars, launchvars, execvars, regvars>>
notMarket == <<notCycles, dropvars, weeklyvars>>
notDrops  == <<notCycles, marketvars, weeklyvars>>
notWeekly == <<notCycles, marketvars, dropvars>>
notReg    == <<now, rlvars, cbvars, retryvars, launchvars, execvars, cyclevars>>

Min(a, b) == IF a <= b THEN a ELSE b

\* ---- bounds of the model
NumCallers == 2         \* concurrent callers sharing the bucket / the breaker
MaxTime    == 6         \* the clock stops advancing here
Callers    == 1..NumCallers
NoCaller   == 0

(***************************************************************************)
(* RateLimiter.  Time is counted in ticks of 60 / (calls_per_minute*Scale) *)
(* seconds and tokens in units of 1/Scale token, so that the refill        *)
(* elapsed * (calls_per_minute / 60) is exactly `elapsed` units and the    *)
(* wait (1 - tokens) * (60 / calls_per_minute) is exactly (Scale - tokens) *)
(* ticks.  time.time() is taken to be non-decreasing.                      *)
(***************************************************************************)
CallsPerMinute == 2     \* calls_per_minute (a constructor argument)
Scale          == 2     \* sub-token resolution of the model
Capacity       == CallsPerMinute * Scale
OneToken       == Scale

\* __init__: a full bucket, lock free
RLInit ==
    /\ tokens = Capacity
    /\ last_update = 0
    /\ lock = NoCaller
    /\ waiters = <<>>
    /\ rlpc = [p \in Callers |-> "idle"]
    /\ wake = [p \in Callers |-> 0]
    /\ granted = 0

\* mutant: the refill is not capped at calls_per_minute
ReplenishUncapped(tok, elapsed) == tok + elapsed

\* lines 32-35: tokens = min(calls_per_minute, tokens + elapsed * rate)
Replenish(tok, elapsed) == Min(Capacity, tok + elapsed)

\* mutant: the wait is computed as a whole token's refill time
WaitTimeFull(tok) == OneToken

\* line 39: wait_time = (1 - tokens) * (60 / calls_per_minute)
WaitTime(tok) == OneToken - tok

\* mutant: the lock is freed but the first waiter is never woken
ReleaseLosesWaiter ==
    /\ lock' = NoCaller
    /\ waiters' = IF waiters = <<>> THEN waiters ELSE Tail(waiters)
    /\ rlpc' = [rlpc EXCEPT ![lock] = "idle"]

\* "async with self.lock" exit: the lock passes to the first waiter, if any
Release ==
    IF waiters = <<>>
    THEN /\ lock' = NoCaller
         /\ waiters' = waiters
         /\ rlpc' = [rlpc EXCEPT ![lock] = "idle"]
    ELSE /\ lock' = Head(waiters)
         /\ waiters' = Tail(waiters)
         /\ rlpc' = [rlpc EXCEPT ![lock] = "idle", ![Head(waiters)] = "locked"]

\* lines 28-43 up to the first suspension point, run by the lock holder p
Body(p) ==
    LET t == Replenish(tokens, now - last_update) IN
    /\ last_update' = now
    /\ IF t < OneToken
       THEN /\ tokens' = t
            /\ wake' = [wake EXCEPT ![p] = now + WaitTime(t)]
            /\ rlpc' = [rlpc EXCEPT ![p] = "sleeping"]
            /\ lock' = p
            /\ UNCHANGED <<waiters, granted>>
       ELSE /\ tokens' = t - OneToken
            /\ granted' = granted + 1
            /\ UNCHANGED wake
            /\ IF lock = p
               THEN Release
               ELSE UNCHANGED <<lock, waiters, rlpc>>

\* acquire() is called: the caller takes a free lock and runs on without
\* yielding, or queues behind the holder
AcquireStep(p) ==
    /\ rlpc[p] = "idle"
    /\ IF lock = NoCaller
       THEN Body(p)
       ELSE /\ waiters' = Append(waiters, p)
            /\ rlpc' = [rlpc EXCEPT ![p] = "queued"]
            /\ UNCHANGED <<tokens, last_update, lock, wake, granted>>

\* acquire() called on its own
AcquireCall(p) ==
    /\ AcquireStep(p)
    /\ UNCHANGED <<now, notRL>>

\* a queued caller that was handed the lock resumes
AcquireResume(p) ==
    /\ rlpc[p] = "locked"
    /\ lock = p
    /\ Body(p)
    /\ UNCHANGED <<now, notRL>>

\* lines 40-41: asyncio.sleep(wait_time) is over; tokens = 0; the lock is released
AcquireWake(p) ==
    /\ rlpc[p] = "sleeping"
    /\ now >= wake[p]
    /\ tokens' = 0
    /\ granted' = granted + 1
    /\ Release
    /\ UNCHANGED <<now, last_update, wake, notRL>>

Tick ==
    /\ now < MaxTime
    /\ now' = now + 1
    /\ UNCHANGED <<rlvars, cbvars, notClock>>

\* acquire() is called before the end of the observed period
AcquireCallEarly(p) ==
    /\ now < MaxTime
    /\ AcquireCall(p)

\* time passes; past the observed period it still passes for as long as a
\* caller's asyncio.sleep has not reached its deadline
TimePasses ==
    /\ \/ now < MaxTime
       \/ \E p \in Callers : rlpc[p] = "sleeping" /\ now < wake[p]
    /\ now' = now + 1
    /\ UNCHANGED <<rlvars, cbvars, notClock>>

(***************************************************************************)
(* CircuitBreaker.  Time is counted in seconds.  The wrapped operation is  *)
(* a coroutine function: call() suspends while it runs, so the calls of    *)
(* several callers interleave at that point (and only there).              *)
(***************************************************************************)
FailureThreshold == 2   \* failure_threshold (a constructor argument)
RecoveryTimeout  == 2   \* recovery_timeout (a constructor argument)
NoneTime         == -1  \* last_failure_time = None
MaxFailures      == 6   \* failure_count is not driven beyond this

\* what the wrapped operation does: returns, raises expected_exception
\* (counted), or raises something else (not counted)
OpOutcomes == {"ok", "counted", "other"}

\* __init__
CBInit ==
    /\ state = "closed"
    /\ failure_count = 0
    /\ last_failure_time = NoneTime
    /\ cbpc = [p \in Callers |-> "idle"]
    /\ admitted = [p \in Callers |-> "none"]
    /\ outcome = [p \in Callers |-> "none"]
    /\ consec = 0
    /\ trial = NoCaller

\* mutant: the cooldown is treated as over one second early
RecoveryElapsedEarly == now - last_failure_time >= RecoveryTimeout - 1

\* line 255: time.time() - self.last_failure_time >= self.recovery_timeout
RecoveryElapsed == now - last_failure_time >= RecoveryTimeout

\* mutant: the breaker opens only after the threshold has been exceeded
ThresholdReachedLate(fc) == fc > FailureThreshold

\* line 279: self.failure_count >= self.failure_threshold
ThresholdReached(fc) == fc >= FailureThreshold

\* lines 253-262: the open-state gate.  An open breaker whose cooldown has
\* not elapsed raises APIError; otherwise the operation is invoked
\* (line 265) and call() suspends until it finishes.
CallEnter(p) ==
    /\ cbpc[p] = "idle"
    /\ IF state = "open" /\ ~RecoveryElapsed
       THEN /\ outcome' = [outcome EXCEPT ![p] = "rejected"]
            /\ admitted' = [admitted EXCEPT ![p] = "none"]
            /\ UNCHANGED <<state, cbpc, trial>>
       ELSE /\ state' = IF state = "open" THEN "half_open" ELSE state
            /\ trial' = IF state = "open" THEN p ELSE trial
            /\ cbpc' = [cbpc EXCEPT ![p] = "inflight"]
            /\ admitted' = [admitted EXCEPT ![p] =
                               IF state = "open" THEN "half_open" ELSE state]
            /\ outcome' = [outcome EXCEPT ![p] = "none"]
    /\ UNCHANGED <<now, failure_count, last_failure_time, consec, notCB>>

\* mutant: every success resets the counter (a count of consecutive failures)
OnSuccessResets(p) ==
    /\ state' = IF state = "half_open" THEN "closed" ELSE state
    /\ failure_count' = 0
    /\ UNCHANGED last_failure_time

\* mutant: a success closes the breaker whatever its state
OnSuccessAny(p) ==
    /\ state' = "closed"
    /\ failure_count' = 0
    /\ UNCHANGED last_failure_time

\* lines 267-273: the operation returned
OnSuccess(p) ==
    /\ IF state = "half_open"
       THEN /\ state' = "closed"
            /\ failure_count' = 0
       ELSE UNCHANGED <<state, failure_count>>
    /\ UNCHANGED last_failure_time

\* lines 275-286: the operation raised expected_exception
OnCounted(p) ==
    /\ failure_count' = failure_count + 1
    /\ last_failure_time' = now
    /\ state' = IF ThresholdReached(failure_count + 1) THEN "open" ELSE state

\* the operation of caller p finishes with result r and call() completes
CallReturn(p, r) ==
    /\ cbpc[p] = "inflight"
    /\ r = "counted" => failure_count < MaxFailures
    /\ CASE r = "ok"      -> OnSuccess(p)
         [] r = "counted" -> OnCounted(p)
         [] r = "other"   -> UNCHANGED <<state, failure_count, last_failure_time>>
    /\ cbpc' = [cbpc EXCEPT ![p] = "idle"]
    /\ outcome' = [outcome EXCEPT ![p] = r]
    /\ consec' = IF r = "counted" THEN consec + 1 ELSE 0
    /\ trial' = IF trial = p THEN NoCaller ELSE trial
    /\ UNCHANGED <<now, admitted, notCB>>

(***************************************************************************)
(* retry_with_backoff.  async_wrapper and sync_wrapper run the same loop   *)
(* (the one awaits func and asyncio.sleep, the other calls func and        *)
(* time.sleep).  An exception is identified by the number of the           *)
(* invocation that raised it.  Delays are in seconds.                      *)
(***************************************************************************)
MaxRetriesBound == 3    \* largest max_retries tried
MaxBaseDelay    == 2    \* largest base_delay tried
SmallMaxDelay   == 3    \* a max_delay small enough to cap the backoff
DefaultMaxDelay == 60   \* max_delay's default

\* what one invocation of func does: returns, raises an exception in
\* `exceptions` (retryable), or raises one that is not (fatal)
FuncOutcomes == {"ok", "retryable", "fatal"}

Configs ==
    [max_retries : 0..MaxRetriesBound,
     base_delay  : 1..MaxBaseDelay,
     max_delay   : {SmallMaxDelay, DefaultMaxDelay},
     exponential : BOOLEAN]

\* the decorator's defaults (lines 71-74)
DefaultConfig ==
    [max_retries |-> 3, base_delay |-> 1, max_delay |-> DefaultMaxDelay, exponential |-> TRUE]

\* the wrapper is entered: last_exception = None, attempt = 0
RetryInit ==
    /\ attempt = 0
    /\ rpc = "loop"
    /\ invocations = 0
    /\ inflight = 0
    /\ waits = <<>>
    /\ results = <<>>
    /\ last_exception = 0
    /\ raised = 0

\* mutant: the exponent is off by one (first retry waits 2 * base_delay)
DelayShifted(c, a) ==
    IF c.exponential
    THEN Min(c.base_delay * (2 ^ (a + 1)), c.max_delay)
    ELSE Min(c.base_delay * (a + 1), c.max_delay)

\* lines 99-102: the delay before the retry that follows failed attempt a
Delay(c, a) ==
    IF c.exponential
    THEN Min(c.base_delay * (2 ^ a), c.max_delay)
    ELSE Min(c.base_delay * (a + 1), c.max_delay)

\* mutant: one attempt too few is retried
MayRetryShort(c, a) == a < c.max_retries - 1

\* line 98: attempt < max_retries
MayRetry(c, a) == a < c.max_retries

\* mutant: every exception is treated as retryable
IsRetryableAny(r) == r \in {"retryable", "fatal"}

\* line 95: "except exceptions as e" catches the exception
IsRetryable(r) == r = "retryable"

\* line 94: func is invoked for the current attempt
RetryInvoke ==
    /\ rpc = "loop"
    /\ attempt <= cfg.max_retries
    /\ invocations' = invocations + 1
    /\ inflight' = inflight + 1
    /\ rpc' = "inflight"
    /\ UNCHANGED <<cfg, attempt, waits, results, last_exception, raised>>
    /\ UNCHANGED <<now, notRetry>>

\* lines 94-114: the invocation ends with r; the wrapper returns, starts a
\* backoff sleep, or raises
RetryOpDone(r) ==
    /\ rpc = "inflight"
    /\ inflight' = inflight - 1
    /\ results' = Append(results, r)
    /\ IF r = "ok"
       THEN /\ rpc' = "returned"
            /\ UNCHANGED <<waits, last_exception, raised>>
       ELSE IF IsRetryable(r)
       THEN /\ last_exception' = invocations
            /\ IF MayRetry(cfg, attempt)
               THEN /\ waits' = Append(waits, Delay(cfg, attempt))
                    /\ rpc' = "sleeping"
                    /\ UNCHANGED raised
               ELSE /\ rpc' = "raised"
                    /\ raised' = invocations
                    /\ UNCHANGED waits
       ELSE /\ rpc' = "raised"
            /\ raised' = invocations
            /\ UNCHANGED <<waits, last_exception>>
    /\ UNCHANGED <<cfg, attempt, invocations>>
    /\ UNCHANGED <<now, notRetry>>

\* line 108: the sleep is over; the loop moves to the next attempt
RetrySleepDone ==
    /\ rpc = "sleeping"
    /\ attempt' = attempt + 1
    /\ rpc' = "loop"
    /\ UNCHANGED <<cfg, invocations, inflight, waits, results, last_exception, raised>>
    /\ UNCHANGED <<now, notRetry>>

(***************************************************************************)
(* process_launch_alerts and the launch_events table.  Time is counted in  *)
(* hours; a date is a day number, and today is hour \div 24.  Every user   *)
(* has alerts enabled.  Event e is the calendar's event for Asset(e); a    *)
(* row of launch_events is inserted with notified = 0.                     *)
(***************************************************************************)
NumUsers  == 2          \* users
NumEvents == 2          \* calendar events
MaxPasses == 2          \* passes of the loop that are followed
LAUNCH_ALERT_DAYS_BEFORE    == 3
LAUNCH_CHECK_INTERVAL_HOURS == 12
ErrorSleepHours             == 1
Users  == 1..NumUsers
Events == 1..NumEvents
Assets == {"BTC", "ETH"}
Asset(e) == IF e % 2 = 1 THEN "BTC" ELSE "ETH"
Today == hour \div 24

\* the members of S in the order of the sequence all
Ordered(all, S) == SelectSeq(all, LAMBDA x : x \in S)
AllUsers  == [i \in 1..NumUsers |-> i]
AllEvents == [i \in 1..NumEvents |-> i]

\* the event dates tried: the first k events are due for an alert today,
\* the others tomorrow
EventDates ==
    {[e \in Events |-> IF e <= k THEN LAUNCH_ALERT_DAYS_BEFORE
                                  ELSE LAUNCH_ALERT_DAYS_BEFORE + 1] : k \in 0..NumEvents}

\* the watchlists tried
Watchlists == {{}, {"BTC"}, Assets}

LaunchInit ==
    /\ hour \in {0, LAUNCH_CHECK_INTERVAL_HOURS}
    /\ event_date \in EventDates
    /\ watch \in [Users -> Watchlists]
    /\ stored \in {{}, Events}
    /\ notified = [e \in Events |-> FALSE]
    /\ scored = {}
    /\ lpc = "top"
    /\ passes = 0
    /\ active_users = <<>>
    /\ events_to_alert = <<>>
    /\ users_watching = <<>>
    /\ delivered = [e \in Events |-> [u \in Users |-> 0]]

\* sync_watchlist_events: the future events of every watched asset are
\* inserted (INSERT OR IGNORE: existing rows are left as they are)
Synced(rows) ==
    rows \cup {e \in Events : /\ \E u \in Users : Asset(e) \in watch[u]
                              /\ event_date[e] > Today}

\* mutant: the notified flag is not part of the query
EventsForAlertAll(rows, days_before) ==
    {e \in rows : event_date[e] = Today + days_before}

\* get_events_for_alert: DATE(event_date) = target_date AND notified = 0
EventsForAlert(rows, days_before) ==
    {e \in rows : event_date[e] = Today + days_before /\ ~notified[e]}

\* "continue" / end of the for body: on to the next event, or to the sleep
NextEvent ==
    /\ events_to_alert' = Tail(events_to_alert)
    /\ lpc' = IF Tail(events_to_alert) = <<>> THEN "sleep" ELSE "event"

\* lines 122-141: steps 1 and 2 of a pass.  f says where a persistence call
\* raises: nowhere, in step 1 before the sync, or in get_events_for_alert.
PassBegin(f) ==
    /\ lpc = "top"
    /\ passes < MaxPasses
    /\ passes' = passes + 1
    /\ IF f = "fail_users"
       THEN /\ lpc' = "errsleep"
            /\ UNCHANGED <<stored, active_users, events_to_alert>>
       ELSE /\ active_users' = AllUsers
            /\ stored' = Synced(stored)
            /\ IF f = "fail_events"
               THEN /\ lpc' = "errsleep"
                    /\ UNCHANGED events_to_alert
               ELSE LET due == Ordered(AllEvents,
                                 EventsForAlert(Synced(stored), LAUNCH_ALERT_DAYS_BEFORE))
                    IN  /\ events_to_alert' = due
                        /\ lpc' = IF due = <<>> THEN "sleep" ELSE "event"
    /\ UNCHANGED <<hour, notified, scored, users_watching, delivered,
                   event_date, watch, notLaunch>>

\* lines 145-157: steps 3-5 for the next event; ok = FALSE when the analysis
\* or update_event_analysis raises (caught at line 178)
EventAnalyse(ok) ==
    /\ lpc = "event"
    /\ IF ok
       THEN /\ scored' = scored \cup {Head(events_to_alert)}
            /\ lpc' = "watchers"
            /\ UNCHANGED events_to_alert
       ELSE /\ NextEvent
            /\ UNCHANGED scored
    /\ UNCHANGED <<hour, stored, notified, passes, active_users, users_watching,
                   delivered, event_date, watch, notLaunch>>

\* lines 160-166: step 6; ok = FALSE when a get_watchlist raises
FindWatchers(ok) ==
    /\ lpc = "watchers"
    /\ IF ok
       THEN LET w == SelectSeq(active_users,
                       LAMBDA u : Asset(Head(events_to_alert)) \in watch[u])
            IN  /\ users_watching' = w
                /\ lpc' = IF w = <<>> THEN "mark" ELSE "send"
                /\ UNCHANGED events_to_alert
       ELSE /\ NextEvent
            /\ UNCHANGED users_watching
    /\ UNCHANGED <<hour, stored, notified, scored, passes, active_users,
                   delivered, event_date, watch, notLaunch>>

\* mutant: the event is marked after the first watcher's alert
SendAlertOnce(ok) ==
    /\ lpc = "send"
    /\ LET e == Head(events_to_alert)
           u == Head(users_watching)
       IN  delivered' = [delivered EXCEPT ![e][u] = IF ok THEN @ + 1 ELSE @]
    /\ users_watching' = Tail(users_watching)
    /\ lpc' = "mark"
    /\ UNCHANGED <<hour, stored, notified, scored, passes, active_users,
                   events_to_alert, event_date, watch, notLaunch>>

\* mutant: a send_message that raises ends the work on the event
SendAlertRaises(ok) ==
    /\ lpc = "send"
    /\ IF ok
       THEN /\ delivered' = [delivered EXCEPT
                                ![Head(events_to_alert)][Head(users_watching)] = @ + 1]
            /\ users_watching' = Tail(users_watching)
            /\ lpc' = IF Tail(users_watching) = <<>> THEN "mark" ELSE "send"
            /\ UNCHANGED events_to_alert
       ELSE /\ NextEvent
            /\ UNCHANGED <<delivered, users_watching>>
    /\ UNCHANGED <<hour, stored, notified, scored, passes, active_users,
                   event_date, watch, notLaunch>>

\* lines 169-171 with send_launch_alert: one user's alert; ok = FALSE when
\* send_message raises (logged at line 111, not re-raised)
SendAlert(ok) ==
    /\ lpc = "send"
    /\ LET e == Head(events_to_alert)
           u == Head(users_watching)
       IN  delivered' = [delivered EXCEPT ![e][u] = IF ok THEN @ + 1 ELSE @]
    /\ users_watching' = Tail(users_watching)
    /\ lpc' = IF Tail(users_watching) = <<>> THEN "mark" ELSE "send"
    /\ UNCHANGED <<hour, stored, notified, scored, passes, active_users,
                   events_to_alert, event_date, watch, notLaunch>>

\* line 174 with mark_event_notified; ok = FALSE when the UPDATE raises
\* (caught at line 178)
MarkNotified(ok) ==
    /\ lpc = "mark"
    /\ notified' = IF ok THEN [notified EXCEPT ![Head(events_to_alert)] = TRUE]
                         ELSE notified
    /\ NextEvent
    /\ UNCHANGED <<hour, stored, scored, passes, active_users, users_watching,
                   delivered, event_date, watch, notLaunch>>

\* line 184: the sleep between passes is over
SleepDone ==
    /\ lpc = "sleep"
    /\ hour' = hour + LAUNCH_CHECK_INTERVAL_HOURS
    /\ lpc' = "top"
    /\ UNCHANGED <<stored, notified, scored, passes, active_users, events_to_alert,
                   users_watching, delivered, event_date, watch, notLaunch>>

\* mutant: the task ends after the error sleep
ErrorSleepExits ==
    /\ lpc = "errsleep"
    /\ hour' = hour + ErrorSleepHours
    /\ lpc' = "ended"
    /\ UNCHANGED <<stored, notified, scored, passes, active_users, events_to_alert,
                   users_watching, delivered, event_date, watch, notLaunch>>

\* lines 186-189: the sleep after a pass that raised is over
ErrorSleepDone ==
    /\ lpc = "errsleep"
    /\ hour' = hour + ErrorSleepHours
    /\ lpc' = "top"
    /\ UNCHANGED <<stored, notified, scored, passes, active_users, events_to_alert,
                   users_watching, delivered, event_date, watch, notLaunch>>

(***************************************************************************)
(* safe_api_call, the callers of the data providers, and the health        *)
(* registry.  One service, with its RateLimiter (above) and its entry in   *)
(* health_check.services.  An outbound call is made through the async      *)
(* wrapper of safe_api_call, through its sync wrapper, or directly by an   *)
(* alert cycle (get_crypto_data).                                          *)
(***************************************************************************)
MaxCalls == 4           \* outbound calls that are followed

MaxHealthFailures == 4  \* a service's failures counter is not driven beyond this
UnhealthyAfter    == 3

\* lines 346-350: the services registered at import
Registered == {"yahoo_finance", "coingecko", "twitter", "database", "bot_api"}
\* the names passed to the mark calls: three registered ones and one that is not
ServiceNames == {"yahoo_finance", "coingecko", "database", "binance"}
\* the service that safe_api_call and the cycles call
Service == "coingecko"

\* HealthCheck.register_service, once per registered name
HealthInit ==
    /\ health = [s \in Registered |->
                    [status |-> "unknown", last_success |-> NoneTime, failures |-> 0]]
    /\ fail_run = [s \in Registered |-> 0]
    /\ marked = <<"none", "">>

\* mutant: mark_success leaves the failures counter as it is
MarkSuccessKeepsCount(service) ==
    /\ marked' = <<"success", service>>
    /\ IF service \in Registered
       THEN /\ health' = [health EXCEPT ![service] =
                              [status |-> "healthy", last_success |-> now,
                               failures |-> health[service].failures]]
            /\ fail_run' = [fail_run EXCEPT ![service] = 0]
       ELSE UNCHANGED <<health, fail_run>>
    /\ UNCHANGED <<sapc, net_calls, ok_calls, failed_calls, rlvars, notExec>>

\* HealthCheck.mark_success, lines 317-322
MarkSuccess(service) ==
    /\ marked' = <<"success", service>>
    /\ IF service \in Registered
       THEN /\ health' = [health EXCEPT ![service] =
                              [status |-> "healthy", last_success |-> now, failures |-> 0]]
            /\ fail_run' = [fail_run EXCEPT ![service] = 0]
       ELSE UNCHANGED <<health, fail_run>>
    /\ UNCHANGED <<sapc, net_calls, ok_calls, failed_calls, rlvars, notExec>>

\* HealthCheck.mark_failure, lines 324-329
MarkFailure(service) ==
    /\ service \in Registered => health[service].failures < MaxHealthFailures
    /\ marked' = <<"failure", service>>
    /\ IF service \in Registered
       THEN LET failures == health[service].failures + 1 IN
            /\ health' = [health EXCEPT ![service] =
                              [status |-> IF failures >= UnhealthyAfter
                                          THEN "unhealthy" ELSE health[service].status,
                               last_success |-> health[service].last_success,
                               failures |-> failures]]
            /\ fail_run' = [fail_run EXCEPT ![service] = @ + 1]
       ELSE UNCHANGED <<health, fail_run>>
    /\ UNCHANGED <<sapc, net_calls, ok_calls, failed_calls, rlvars, notExec>>

MaxLookups == 2         \* lookups of one name in one table that are followed

\* the keys of RATE_LIMITERS (lines 57-62) and of CIRCUIT_BREAKERS (lines
\* 290-295), in the order in which their objects are constructed
TableKeys == <<"yahoo_finance", "coingecko", "twitter", "dex">>
\* the names looked up: two keys of the tables and one name that is not a key
LookupNames == {"coingecko", "dex", "binance"}
\* the objects a table of n constructed objects can hold
Objects(n) == 1..n
MaxObjects == Len(TableKeys) + MaxLookups * Cardinality(LookupNames)

\* dict.get(service, default): the table's object for a key, else the default
TableGet(service, default) ==
    IF \E i \in DOMAIN TableKeys : TableKeys[i] = service
    THEN CHOOSE i \in DOMAIN TableKeys : TableKeys[i] = service
    ELSE default

\* the tables as built at import: one object per key, nothing looked up yet
RegistryInit ==
    /\ rl_objects = Len(TableKeys)
    /\ cb_objects = Len(TableKeys)
    /\ rl_got = [n \in LookupNames |-> <<>>]
    /\ cb_got = [n \in LookupNames |-> <<>>]
    /\ rl_taken = [o \in Objects(MaxObjects) |-> 0]
    /\ cb_failed = [o \in Objects(MaxObjects) |-> 0]

\* get_rate_limiter(service), lines 65-67, and one acquire() on the object
\* returned.  The default argument RateLimiter(calls_per_minute=60) is
\* constructed in every call, before the lookup.
GetRateLimiter(service) ==
    /\ Len(rl_got[service]) < MaxLookups
    /\ rl_objects' = rl_objects + 1
    /\ LET limiter == TableGet(service, rl_objects + 1) IN
       /\ rl_got' = [rl_got EXCEPT ![service] = Append(@, limiter)]
       /\ rl_taken' = [rl_taken EXCEPT ![limiter] = @ + 1]
    /\ UNCHANGED <<cb_objects, cb_got, cb_failed, notReg>>

\* get_circuit_breaker(service), lines 298-303, and one counted failure on
\* the object returned.  The default CircuitBreaker is constructed in every
\* call.
GetCircuitBreaker(service) ==
    /\ Len(cb_got[service]) < MaxLookups
    /\ cb_objects' = cb_objects + 1
    /\ LET breaker == TableGet(service, cb_objects + 1) IN
       /\ cb_got' = [cb_got EXCEPT ![service] = Append(@, breaker)]
       /\ cb_failed' = [cb_failed EXCEPT ![breaker] = @ + 1]
    /\ UNCHANGED <<rl_objects, rl_got, rl_taken, notReg>>

ExecInit ==
    /\ RegistryInit
    /\ sapc = [p \in Callers |-> "idle"]
    /\ net_calls = 0
    /\ ok_calls = 0
    /\ failed_calls = 0
    /\ HealthInit

\* async_wrapper, lines 165-169: the wrapper calls rate_limiter.acquire()
SafeAsyncEnter(p) ==
    /\ sapc[p] = "idle"
    /\ net_calls + Cardinality({q \in Callers : sapc[q] = "acquiring"}) < MaxCalls
    /\ AcquireStep(p)
    /\ sapc' = [sapc EXCEPT ![p] = "acquiring"]
    /\ UNCHANGED <<net_calls, ok_calls, failed_calls, health, fail_run, marked, notExec>>

\* async_wrapper, line 172: acquire() has returned, func is invoked
SafeAsyncInvoke(p) ==
    /\ sapc[p] = "acquiring"
    /\ rlpc[p] = "idle"
    /\ sapc' = [sapc EXCEPT ![p] = "calling"]
    /\ net_calls' = net_calls + 1
    /\ UNCHANGED <<ok_calls, failed_calls, health, fail_run, marked, rlvars, notExec>>

\* async_wrapper, lines 173-181: func returns (the result is returned) or
\* raises (the exception is logged and fallback_value is returned)
SafeAsyncReturn(p, ok) ==
    /\ sapc[p] = "calling"
    /\ sapc' = [sapc EXCEPT ![p] = "idle"]
    /\ ok_calls' = IF ok THEN ok_calls + 1 ELSE ok_calls
    /\ failed_calls' = IF ok THEN failed_calls ELSE failed_calls + 1
    /\ UNCHANGED <<net_calls, health, fail_run, marked, rlvars, notExec>>

\* sync_wrapper, lines 184-194: func is invoked at once; its result or the
\* fallback_value is returned
SafeSyncCall(ok) ==
    /\ net_calls + Cardinality({q \in Callers : sapc[q] = "acquiring"}) < MaxCalls
    /\ net_calls' = net_calls + 1
    /\ ok_calls' = IF ok THEN ok_calls + 1 ELSE ok_calls
    /\ failed_calls' = IF ok THEN failed_calls ELSE failed_calls + 1
    /\ UNCHANGED <<sapc, health, fail_run, marked, rlvars, notExec>>

\* an alert cycle fetches market data: get_crypto_data(ticker) is called
\* directly (alerts.py line 35, launch_alerts.py line 44) and, on a cache
\* miss, requests the provider
CycleFetch(ok) ==
    /\ net_calls + Cardinality({q \in Callers : sapc[q] = "acquiring"}) < MaxCalls
    /\ net_calls' = net_calls + 1
    /\ ok_calls' = IF ok THEN ok_calls + 1 ELSE ok_calls
    /\ failed_calls' = IF ok THEN failed_calls ELSE failed_calls + 1
    /\ UNCHANGED <<sapc, health, fail_run, marked, rlvars, notExec>>

(***************************************************************************)
(* send_market_alerts with analyze_watchlist_for_user.  A candidate is a   *)
(* user of the pass or a watchlist item of that user.  bot.py starts one   *)
(* task; the loop function has no state of its own besides its locals, so  *)
(* further tasks started on it run the same code.                         *)
(***************************************************************************)
NumTasks == 2           \* tasks that may run the loop function
Tasks    == 1..NumTasks
AssetSeq == <<"BTC", "ETH">>

\* the tasks in `started` are at the top of the loop, the others do not exist
MarketInit(started) ==
    /\ mpc = [t \in Tasks |-> IF t \in started THEN "top" ELSE "off"]
    /\ m_active_users = [t \in Tasks |-> <<>>]
    /\ m_watchlist = [t \in Tasks |-> <<>>]
    /\ m_passes = [t \in Tasks |-> 0]
    /\ m_failed = [t \in Tasks |-> FALSE]

\* asyncio.create_task(send_market_alerts(bot)), bot.py line 71
StartMarketTask(t) ==
    /\ mpc[t] = "off"
    /\ mpc' = [mpc EXCEPT ![t] = "top"]
    /\ UNCHANGED <<m_active_users, m_watchlist, m_passes, m_failed, notMarket>>

\* mutant: an exception in a candidate abandons the rest of the pass
MarketNextUserAbort(t) ==
    /\ m_active_users' = [m_active_users EXCEPT ![t] = IF m_failed'[t] THEN <<>> ELSE Tail(@)]
    /\ mpc' = [mpc EXCEPT ![t] = IF m_failed'[t] \/ Tail(m_active_users[t]) = <<>>
                                  THEN "sleep" ELSE "user"]

\* lines 90-97: on to the next user, or to the sleep between passes
MarketNextUser(t) ==
    /\ m_active_users' = [m_active_users EXCEPT ![t] = Tail(@)]
    /\ mpc' = [mpc EXCEPT ![t] = IF Tail(m_active_users[t]) = <<>> THEN "sleep" ELSE "user"]

\* lines 81-88: get_all_active_users; ok = FALSE when it raises (line 103)
MarketPassBegin(t, ok) ==
    /\ mpc[t] = "top"
    /\ m_passes[t] < MaxPasses
    /\ m_passes' = [m_passes EXCEPT ![t] = @ + 1]
    /\ m_failed' = [m_failed EXCEPT ![t] = FALSE]
    /\ IF ok
       THEN /\ m_active_users' = [m_active_users EXCEPT ![t] = AllUsers]
            /\ mpc' = [mpc EXCEPT ![t] = IF AllUsers = <<>> THEN "sleep" ELSE "user"]
       ELSE /\ mpc' = [mpc EXCEPT ![t] = "errsleep"]
            /\ UNCHANGED m_active_users
    /\ UNCHANGED <<m_watchlist, notMarket>>

\* line 92 with analyze_watchlist_for_user lines 21-25: the user's watchlist
\* is read; ok = FALSE when get_watchlist raises (caught at line 69)
MarketUser(t, ok) ==
    /\ mpc[t] = "user"
    /\ LET items == Ordered(AssetSeq, watch[Head(m_active_users[t])]) IN
       IF ok /\ items # <<>>
       THEN /\ m_watchlist' = [m_watchlist EXCEPT ![t] = items]
            /\ mpc' = [mpc EXCEPT ![t] = "ticker"]
            /\ UNCHANGED <<m_active_users, m_failed>>
       ELSE /\ m_failed' = [m_failed EXCEPT ![t] = @ \/ ~ok]
            /\ MarketNextUser(t)
            /\ UNCHANGED m_watchlist
    /\ UNCHANGED <<m_passes, notMarket>>

\* analyze_watchlist_for_user lines 29-64: one watchlist item; ok = FALSE
\* when get_crypto_data, score_crypto, send_message or log_alert raises
\* (caught at line 62).  After the last item the user is done (line 94).
MarketTicker(t, ok) ==
    /\ mpc[t] = "ticker"
    /\ m_watchlist' = [m_watchlist EXCEPT ![t] = Tail(@)]
    /\ m_failed' = [m_failed EXCEPT ![t] = @ \/ ~ok]
    /\ IF Tail(m_watchlist[t]) = <<>>
       THEN MarketNextUser(t)
       ELSE UNCHANGED <<mpc, m_active_users>>
    /\ UNCHANGED <<m_passes, notMarket>>

\* line 101: the sleep between passes is over
MarketSleepDone(t) ==
    /\ mpc[t] = "sleep"
    /\ mpc' = [mpc EXCEPT ![t] = "top"]
    /\ UNCHANGED <<m_active_users, m_watchlist, m_passes, m_failed, notMarket>>

\* lines 103-106: the sleep after a pass that raised is over
MarketErrorSleepDone(t) ==
    /\ mpc[t] = "errsleep"
    /\ mpc' = [mpc EXCEPT ![t] = "top"]
    /\ UNCHANGED <<m_active_users, m_watchlist, m_passes, m_failed, notMarket>>

(***************************************************************************)
(* monitor_price_drops.  A candidate is a user of the pass.                *)
(* database.track_price_changes is not defined in database.py; it is taken *)
(* to return the user's drop alerts or to raise.                           *)
(***************************************************************************)
DropsInit(started) ==
    /\ dpc = IF started THEN "top" ELSE "off"
    /\ d_active_users = <<>>
    /\ d_passes = 0
    /\ d_failed = FALSE

\* lines 272-276: get_all_active_users; ok = FALSE when it raises (line 311)
DropPassBegin(ok) ==
    /\ dpc = "top"
    /\ d_passes < MaxPasses
    /\ d_passes' = d_passes + 1
    /\ d_failed' = FALSE
    /\ IF ok
       THEN /\ d_active_users' = AllUsers
            /\ dpc' = IF AllUsers = <<>> THEN "sleep" ELSE "user"
       ELSE /\ dpc' = "errsleep"
            /\ UNCHANGED d_active_users
    /\ UNCHANGED notDrops

\* lines 277-306: one user; ok = FALSE when track_price_changes or a
\* send_message raises (caught at line 304)
DropUser(ok) ==
    /\ dpc = "user"
    /\ d_failed' = (d_failed \/ ~ok)
    /\ d_active_users' = Tail(d_active_users)
    /\ dpc' = IF Tail(d_active_users) = <<>> THEN "sleep" ELSE "user"
    /\ UNCHANGED <<d_passes, notDrops>>

\* line 309: the sleep between passes is over
DropSleepDone ==
    /\ dpc = "sleep"
    /\ dpc' = "top"
    /\ UNCHANGED <<d_active_users, d_passes, d_failed, notDrops>>

\* lines 311-313: the sleep after a pass that raised is over
DropErrorSleepDone ==
    /\ dpc = "errsleep"
    /\ dpc' = "top"
    /\ UNCHANGED <<d_active_users, d_passes, d_failed, notDrops>>

(***************************************************************************)
(* send_weekly_reports with generate_weekly_report.  datetime.now() is     *)
(* counted in ticks of 1/TicksPerHour hour since Monday 00:00 (weekday 0). *)
(* A candidate is a user of a reporting pass.                              *)
(* database.get_last_report_date and database.mark_weekly_report_sent are  *)
(* not defined in database.py; they are taken to read and to write the     *)
(* user's last-report timestamp (getLastReportDate / markReportSent of the *)
(* persistence interface), and either may raise.                           *)
(***************************************************************************)
TicksPerHour       == 2     \* resolution of the clock
WEEKLY_REPORT_DAY  == 0
WEEKLY_REPORT_HOUR == 9
NoReport           == -1
MaxUserTicks       == 1     \* longest time one user's report takes, in ticks

Day(t)       == t \div (24 * TicksPerHour)
Weekday(t)   == Day(t) % 7
HourOfDay(t) == (t \div TicksPerHour) % 24

\* the process starts between one hour before the report hour and its end
WeeklyStarts ==
    ((WEEKLY_REPORT_HOUR - 1) * TicksPerHour) .. ((WEEKLY_REPORT_HOUR + 1) * TicksPerHour - 1)
\* the loop is followed until two hours after the report hour
WeeklyHorizon == (WEEKLY_REPORT_HOUR + 3) * TicksPerHour

WeeklyInit(started) ==
    /\ wtime \in WeeklyStarts
    /\ wpc = IF started THEN "top" ELSE "off"
    /\ w_now = wtime
    /\ w_active_users = <<>>
    /\ last_report \in [Users -> {NoReport, Day(wtime)}]
    /\ portfolio \in [Users -> BOOLEAN]
    /\ report_days = [u \in Users |-> <<>>]
    /\ w_checks = <<>>
    /\ w_failed = FALSE
    /\ mark_calls = [u \in Users |-> 0]
    /\ has_portfolio = [u \in Users |-> "none"]

\* the loop is not started and its tables are empty
WeeklyOff ==
    /\ WeeklyInit(FALSE)
    /\ wtime = (WEEKLY_REPORT_HOUR - 1) * TicksPerHour
    /\ last_report = [u \in Users |-> NoReport]
    /\ portfolio = [u \in Users |-> FALSE]

\* line 206: now.weekday() == WEEKLY_REPORT_DAY and now.hour == WEEKLY_REPORT_HOUR
InReportWindow(t) == Weekday(t) = WEEKLY_REPORT_DAY /\ HourOfDay(t) = WEEKLY_REPORT_HOUR

\* database.get_last_report_date(user_id): the stored date, NoReport for None
GetLastReportDate(u) == last_report[u]

\* database.mark_weekly_report_sent(user_id): the date of the call is stored
MarkWeeklyReportSent(u, day) == [last_report EXCEPT ![u] = day]

\* mutant: every snapshot is taken to have positions
HasPortfolioAlways(u) == TRUE

\* generate_weekly_report line 42: has_portfolio = snapshot['positions'] is not empty
HasPortfolio(u) == portfolio[u]

\* mutant: the sleep after a reporting pass is half an hour
WeeklyPassSleepHalf == TicksPerHour \div 2

\* line 253: asyncio.sleep(3600) after a reporting pass
WeeklyPassSleep == TicksPerHour
\* line 256: asyncio.sleep(3600) when it is not the report hour
WeeklyIdleSleep == TicksPerHour
\* line 260: asyncio.sleep(3600) after an exception
WeeklyErrorSleep == TicksPerHour

\* lines 202-212: now = datetime.now(); outside the report hour the
\* iteration only sleeps; inside it get_all_active_users is read
\* (ok = FALSE when it raises, line 258)
WeeklyCheck(ok) ==
    /\ wpc = "top"
    /\ wtime < WeeklyHorizon
    /\ w_now' = wtime
    /\ w_failed' = FALSE
    /\ IF InReportWindow(wtime)
       THEN /\ w_checks' = Append(w_checks, wtime)
            /\ IF ok
               THEN /\ w_active_users' = AllUsers
                    /\ wpc' = IF AllUsers = <<>> THEN "sleep" ELSE "user"
               ELSE /\ wpc' = "errsleep"
                    /\ UNCHANGED w_active_users
       ELSE /\ wpc' = "idlesleep"
            /\ UNCHANGED <<w_checks, w_active_users>>
    /\ UNCHANGED <<wtime, last_report, portfolio, report_days, mark_calls,
                   has_portfolio, notWeekly>>

\* lines 215-248: one user of a reporting pass, taking d ticks.  f says
\* which call raises, if any (caught at line 246).
WeeklyUser(f, d) ==
    /\ wpc = "user"
    /\ LET u == Head(w_active_users)
           already == GetLastReportDate(u) # NoReport /\ GetLastReportDate(u) = Day(w_now)
           generated == f # "fail_last" /\ ~already /\ f # "fail_generate"
           reaches_send == generated /\ HasPortfolio(u)
           sent == reaches_send /\ f # "fail_send"
       IN  /\ has_portfolio' = IF generated
                                THEN [has_portfolio EXCEPT ![u] = IF HasPortfolio(u) THEN "yes" ELSE "no"]
                                ELSE has_portfolio
           /\ report_days' = IF sent
                              THEN [report_days EXCEPT ![u] = Append(@, Day(wtime + d))]
                              ELSE report_days
           /\ mark_calls' = IF sent THEN [mark_calls EXCEPT ![u] = @ + 1] ELSE mark_calls
           /\ last_report' = IF sent /\ f # "fail_mark"
                              THEN MarkWeeklyReportSent(u, Day(wtime + d))
                              ELSE last_report
           /\ w_failed' = (w_failed \/ (f = "fail_last")
                                   \/ (~already /\ f = "fail_generate")
                                   \/ (reaches_send /\ f \in {"fail_send", "fail_mark"}))
    /\ wtime' = wtime + d
    /\ w_active_users' = Tail(w_active_users)
    /\ wpc' = IF Tail(w_active_users) = <<>> THEN "sleep" ELSE "user"
    /\ UNCHANGED <<w_now, portfolio, w_checks, notWeekly>>

\* line 253: the sleep after a reporting pass is over
WeeklySleepDone ==
    /\ wpc = "sleep"
    /\ wtime' = wtime + WeeklyPassSleep
    /\ wpc' = "top"
    /\ UNCHANGED <<w_now, w_active_users, last_report, portfolio, report_days,
                   w_checks, w_failed, mark_calls, has_portfolio, notWeekly>>

\* ticks by which the next reading of the clock follows the full hour
\* slept: the iteration's own running time and the overshoot of
\* asyncio.sleep are positive but far below a tick, so the reading falls in
\* the tick one hour on or, when a tick boundary was crossed, in the next
Overrun == {0, 1}

\* line 256: the sleep of an iteration outside the report hour is over; the
\* loop reads the clock again d ticks past the hour slept
WeeklyIdleSleepDone(d) ==
    /\ wpc = "idlesleep"
    /\ wtime' = wtime + WeeklyIdleSleep + d
    /\ wpc' = "top"
    /\ UNCHANGED <<w_now, w_active_users, last_report, portfolio, report_days,
                   w_checks, w_failed, mark_calls, has_portfolio, notWeekly>>

\* lines 258-260: the sleep after an iteration that raised is over
WeeklyErrorSleepDone ==
    /\ wpc = "errsleep"
    /\ wtime' = wtime + WeeklyErrorSleep
    /\ wpc' = "top"
    /\ UNCHANGED <<w_now, w_active_users, last_report, portfolio, report_days,
                   w_checks, w_failed, mark_calls, has_portfolio, notWeekly>>

WeeklyFailures == {"ok", "fail_last", "fail_generate", "fail_send", "fail_mark"}

(***************************************************************************)
(* Specifications                                                          *)
(***************************************************************************)
NextRL ==
    \/ \E p \in Callers : AcquireCall(p)
    \/ \E p \in Callers : AcquireResume(p)
    \/ \E p \in Callers : AcquireWake(p)
    \/ Tick

\* the limiter with the calls stopping at MaxTime and the clock running on
NextRLFair ==
    \/ \E p \in Callers : AcquireCallEarly(p)
    \/ \E p \in Callers : AcquireResume(p)
    \/ \E p \in Callers : AcquireWake(p)
    \/ TimePasses

\* the outbound calls to one service
NextExec ==
    \/ \E p \in Callers : SafeAsyncEnter(p)
    \/ \E p \in Callers : AcquireResume(p)
    \/ \E p \in Callers : AcquireWake(p)
    \/ \E p \in Callers : SafeAsyncInvoke(p)
    \/ \E p \in Callers, ok \in BOOLEAN : SafeAsyncReturn(p, ok)
    \/ \E ok \in BOOLEAN : SafeSyncCall(ok)
    \/ \E ok \in BOOLEAN : CycleFetch(ok)
    \/ Tick

\* the mark calls on the health registry
NextHealth ==
    \/ \E s \in ServiceNames : MarkSuccess(s)
    \/ \E s \in ServiceNames : MarkFailure(s)

\* the lookups in the global tables
NextRegistry ==
    \/ \E n \in LookupNames : GetRateLimiter(n)
    \/ \E n \in LookupNames : GetCircuitBreaker(n)

NextCB ==
    \/ \E p \in Callers : CallEnter(p)
    \/ \E p \in Callers, r \in OpOutcomes : CallReturn(p, r)
    \/ Tick

NextRetry ==
    \/ RetryInvoke
    \/ \E r \in FuncOutcomes : RetryOpDone(r)
    \/ RetrySleepDone

NextLaunch ==
    \/ \E f \in {"ok", "fail_users", "fail_events"} : PassBegin(f)
    \/ \E ok \in BOOLEAN : EventAnalyse(ok)
    \/ \E ok \in BOOLEAN : FindWatchers(ok)
    \/ \E ok \in BOOLEAN : SendAlert(ok)
    \/ \E ok \in BOOLEAN : MarkNotified(ok)
    \/ SleepDone
    \/ ErrorSleepDone

NextMarket ==
    \/ \E t \in Tasks, ok \in BOOLEAN : MarketPassBegin(t, ok)
    \/ \E t \in Tasks, ok \in BOOLEAN : MarketUser(t, ok)
    \/ \E t \in Tasks, ok \in BOOLEAN : MarketTicker(t, ok)
    \/ \E t \in Tasks : MarketSleepDone(t)
    \/ \E t \in Tasks : MarketErrorSleepDone(t)

NextDrops ==
    \/ \E ok \in BOOLEAN : DropPassBegin(ok)
    \/ \E ok \in BOOLEAN : DropUser(ok)
    \/ DropSleepDone
    \/ DropErrorSleepDone

NextWeekly ==
    \/ \E ok \in BOOLEAN : WeeklyCheck(ok)
    \/ \E f \in WeeklyFailures, d \in 0..MaxUserTicks : WeeklyUser(f, d)
    \/ WeeklySleepDone
    \/ \E d \in Overrun : WeeklyIdleSleepDone(d)
    \/ WeeklyErrorSleepDone

\* any of the four alert loops
NextCycles ==
    \/ NextLaunch
    \/ NextMarket
    \/ NextDrops
    \/ NextWeekly

\* send_market_alerts started any number of times
NextReentry ==
    \/ \E t \in Tasks : StartMarketTask(t)
    \/ NextMarket

\* the components not exercised by a specification stay as constructed
RetryIdle  == RetryInit /\ cfg = DefaultConfig
LaunchIdle == LaunchInit /\ hour = 0 /\ event_date = [e \in Events |-> LAUNCH_ALERT_DAYS_BEFORE]
                         /\ watch = [u \in Users |-> {}] /\ stored = {}

\* no alert loop but process_launch_alerts is running
CyclesOff == MarketInit({}) /\ DropsInit(FALSE) /\ WeeklyOff
\* process_launch_alerts is not running
LaunchOff ==
    /\ hour = 0
    /\ event_date = [e \in Events |-> LAUNCH_ALERT_DAYS_BEFORE]
    /\ stored = {}
    /\ notified = [e \in Events |-> FALSE]
    /\ scored = {}
    /\ lpc = "off"
    /\ passes = 0
    /\ active_users = <<>>
    /\ events_to_alert = <<>>
    /\ users_watching = <<>>
    /\ delivered = [e \in Events |-> [u \in Users |-> 0]]
NoWatchlists == watch = [u \in Users |-> {}]
Components == now = 0 /\ RLInit /\ CBInit /\ RetryIdle /\ ExecInit

\* callers of one RateLimiter
InitRL == now = 0 /\ RLInit /\ CBInit /\ RetryIdle /\ LaunchIdle /\ ExecInit /\ CyclesOff
SpecRL == InitRL /\ [][NextRL]_vars

\* the same under fair scheduling: the event loop resumes every task that
\* can run (a lock hand-off, an expired sleep) and time does not stop
FairRL ==
    /\ WF_vars(TimePasses)
    /\ \A p \in Callers : WF_vars(AcquireResume(p)) /\ WF_vars(AcquireWake(p))
InitRLFair == now = 0 /\ RLInit /\ CBInit /\ RetryIdle /\ LaunchIdle /\ ExecInit /\ CyclesOff
SpecRLFair == InitRLFair /\ [][NextRLFair]_vars /\ FairRL

\* outbound calls to one service, through safe_api_call and from the cycles
InitExec == now = 0 /\ RLInit /\ CBInit /\ RetryIdle /\ LaunchIdle /\ ExecInit /\ CyclesOff
SpecExec == InitExec /\ [][NextExec]_vars

\* the watchlist table with one user who may watch something
OneWatcher == watch \in {[u \in Users |-> IF u = 1 THEN w ELSE {}] : w \in Watchlists}

\* callers looking up limiters and breakers by service name
InitRegistry == Components /\ LaunchIdle /\ CyclesOff
SpecRegistry == InitRegistry /\ [][NextRegistry]_vars

\* the health registry under any sequence of mark calls
InitHealth == Components /\ LaunchIdle /\ CyclesOff
SpecHealth == InitHealth /\ [][NextHealth]_vars

\* the watchlist table where every user watches the same assets
SameWatchlist == watch \in {[u \in Users |-> w] : w \in Watchlists}

\* the launch loop alone, started at midnight, its events watched by
\* every user or by none
InitDispatch == Components /\ LaunchInit /\ hour = 0 /\ SameWatchlist /\ CyclesOff
SpecDispatch == InitDispatch /\ [][NextLaunch]_vars

\* one of the four alert loops, as a single task; the launch loop runs with
\* one watching user at most
InitCycles ==
    /\ Components
    /\ \/ LaunchInit /\ OneWatcher /\ CyclesOff
       \/ LaunchOff /\ watch \in [Users -> Watchlists]
                    /\ MarketInit({1}) /\ DropsInit(FALSE) /\ WeeklyOff
       \/ LaunchOff /\ NoWatchlists
                    /\ MarketInit({}) /\ DropsInit(TRUE) /\ WeeklyOff
       \/ LaunchOff /\ NoWatchlists
                    /\ MarketInit({}) /\ DropsInit(FALSE) /\ WeeklyInit(TRUE)
SpecCycles == InitCycles /\ [][NextCycles]_vars

\* the same under fair scheduling: the event loop resumes a task whose await
\* has completed
FairCycles ==
    /\ WF_vars(NextLaunch)
    /\ WF_vars(NextMarket)
    /\ WF_vars(NextDrops)
    /\ WF_vars(NextWeekly)
InitCyclesFair == InitCycles
SpecCyclesFair == InitCyclesFair /\ [][NextCycles]_vars /\ FairCycles

\* one send_weekly_reports task
InitWeekly ==
    /\ Components /\ LaunchOff /\ NoWatchlists
    /\ MarketInit({}) /\ DropsInit(FALSE) /\ WeeklyInit(TRUE)
SpecWeekly == InitWeekly /\ [][NextWeekly]_vars

\* send_market_alerts, started once by bot.py and possibly again
InitReentry ==
    /\ Components /\ LaunchOff /\ watch \in [Users -> Watchlists]
    /\ MarketInit({1}) /\ DropsInit(FALSE) /\ WeeklyOff
SpecReentry == InitReentry /\ [][NextReentry]_vars

\* callers of one CircuitBreaker
InitCB == now = 0 /\ RLInit /\ CBInit /\ RetryIdle /\ LaunchIdle /\ ExecInit /\ CyclesOff
SpecCB == InitCB /\ [][NextCB]_vars

\* one call of a function decorated with retry_with_backoff
InitRetry == now = 0 /\ RLInit /\ CBInit /\ RetryInit /\ cfg \in Configs /\ LaunchIdle /\ ExecInit /\ CyclesOff
SpecRetry == InitRetry /\ [][NextRetry]_vars

\* one process_launch_alerts task
InitLaunch == now = 0 /\ RLInit /\ CBInit /\ RetryIdle /\ LaunchInit /\ ExecInit /\ CyclesOff
SpecLaunch == InitLaunch /\ [][NextLaunch]_vars

(***************************************************************************)
(* Properties                                                              *)
(***************************************************************************)

\* C1: across the passes of one process_launch_alerts task, the alert for
\* an event id is delivered to a user at most once (also when
\* update_event_analysis, get_watchlist, send_message or
\* mark_event_notified fails).  Fails: see C1 in the results.
C1_AtMostOnceDispatch ==
    \A e \in Events, u \in Users : delivered[e][u] <= 1

\* C2: whatever the callers and the time between calls, the bucket keeps
\* 0 <= tokens <= calls_per_minute.
C2_TokensWithinBucket ==
    /\ 0 <= tokens
    /\ tokens <= Capacity

\* C2 witness: the bucket was drained, one caller waits for a token inside
\* the critical section and another is queued on the lock
C2_Witness ==
    /\ now > 0
    /\ granted >= CallsPerMinute
    /\ tokens < OneToken
    /\ \E p, q \in Callers : rlpc[p] = "sleeping" /\ rlpc[q] = "queued"

\* C3: by time t the limiter has let at most capacity + t * capacity/60
\* acquire calls return (in token units: granted * Scale <= Capacity + now).
C3_GrantsWithinSchedule ==
    granted * Scale <= Capacity + now

\* a step in which caller p makes a call() (it is admitted or rejected)
EntersCall(p) ==
    /\ cbpc[p] = "idle"
    /\ \/ cbpc'[p] # cbpc[p]
       \/ outcome'[p] # outcome[p]
       \/ admitted'[p] # admitted[p]

\* a step in which caller p's operation finishes
LeavesCall(p) == cbpc[p] = "inflight" /\ cbpc'[p] = "idle"

\* C4: the call that completes a run of failure_threshold consecutive
\* counted failures leaves the breaker open; a call made while the breaker
\* is open and the cooldown has not elapsed is rejected (APIError) without
\* invoking the operation and changes none of state, failure_count,
\* last_failure_time.
C4_OpensAndFailsFast ==
    [][ /\ (consec' = consec + 1 /\ consec' >= FailureThreshold) => state' = "open"
        /\ \A p \in Callers :
             (EntersCall(p) /\ state = "open"
                 /\ now - last_failure_time < RecoveryTimeout)
             => /\ cbpc'[p] = "idle"
                /\ outcome'[p] = "rejected"
                /\ UNCHANGED <<state, failure_count, last_failure_time>>
      ]_vars

\* C4 witness: failure_threshold consecutive counted failures have opened
\* the breaker and a call made during the cooldown was rejected
C4_Witness ==
    /\ state = "open"
    /\ consec >= FailureThreshold
    /\ now - last_failure_time < RecoveryTimeout
    /\ \E p \in Callers : outcome[p] = "rejected" /\ cbpc[p] = "idle"

\* C5: the call made when the breaker is open and the cooldown has elapsed
\* is let through (half-open); when its operation succeeds the breaker is
\* closed with failure_count = 0, when it raises a counted exception the
\* breaker is open.  Fails: see C5 in the results.
C5_TrialDecides ==
    [][ \A p \in Callers :
          /\ (EntersCall(p) /\ state = "open"
                 /\ now - last_failure_time >= RecoveryTimeout)
             => (cbpc'[p] = "inflight" /\ state' = "half_open")
          /\ (LeavesCall(p) /\ trial = p /\ outcome'[p] = "ok")
             => (state' = "closed" /\ failure_count' = 0)
          /\ (LeavesCall(p) /\ trial = p /\ outcome'[p] = "counted")
             => state' = "open"
      ]_vars

\* C6: the breaker's state changes only closed -> open as failure_count
\* reaches failure_threshold, open -> half_open once the cooldown has
\* elapsed, half_open -> closed on a success, half_open -> open on a
\* counted failure.
C6_OnlyLegalTransitions ==
    [][ state' # state =>
          \/ /\ state = "closed" /\ state' = "open"
             /\ failure_count' = failure_count + 1
             /\ failure_count' = FailureThreshold
          \/ /\ state = "open" /\ state' = "half_open"
             /\ now - last_failure_time >= RecoveryTimeout
             /\ \E p \in Callers : EntersCall(p)
          \/ /\ state = "half_open" /\ state' = "closed"
             /\ \E p \in Callers : LeavesCall(p) /\ outcome'[p] = "ok"
          \/ /\ state = "half_open" /\ state' = "open"
             /\ \E p \in Callers : LeavesCall(p) /\ outcome'[p] = "counted"
      ]_vars

\* C6 witness: the breaker has gone closed -> open -> half_open -> open
\* while a second caller's call is still in progress
C6_Witness ==
    /\ state = "open"
    /\ \E p, q \in Callers :
         /\ admitted[p] = "half_open" /\ outcome[p] = "counted" /\ cbpc[p] = "idle"
         /\ cbpc[q] = "inflight"

\* C7: while the breaker is half_open, no call other than the trial call
\* has its operation invoked.  Fails: see C7 in the results.
C7_SingleTrial ==
    [][ \A p \in Callers :
          (EntersCall(p) /\ state = "half_open") => cbpc'[p] # "inflight"
      ]_vars

\* the invocations so far all raised a retryable exception
AllRetryable == \A i \in 1..Len(results) : results[i] = "retryable"

\* the invocations so far: k retryable failures, then a success
FailsThenSucceeds ==
    /\ results # <<>>
    /\ results[Len(results)] = "ok"
    /\ \A i \in 1..(Len(results) - 1) : results[i] = "retryable"

\* C8: when every attempt raises a retryable exception the wrapper invokes
\* the operation max_retries + 1 times, never two at once, and then raises
\* the exception of the last attempt.
C8_ExhaustsThenRaisesLast ==
    /\ inflight <= 1
    /\ (AllRetryable /\ Len(results) = cfg.max_retries + 1)
       => (rpc = "raised" /\ raised = cfg.max_retries + 1)
    /\ (AllRetryable /\ rpc \in {"raised", "returned"})
       => (rpc = "raised" /\ invocations = cfg.max_retries + 1
              /\ raised = invocations)

\* C8 witness: max_retries >= 2 and every attempt has failed
C8_Witness ==
    /\ cfg.max_retries >= 2
    /\ AllRetryable
    /\ rpc = "raised"

\* C9: k retryable failures (k <= max_retries) followed by a success give
\* exactly k + 1 invocations and a normal return, and the wait after failed
\* attempt i is min(base_delay * 2^i, max_delay) (exponential) or
\* min(base_delay * (i+1), max_delay) (linear); with the defaults and k = 3:
\* 4 invocations and waits 1, 2, 4.
C9_BackoffSchedule ==
    /\ FailsThenSucceeds
       => /\ rpc = "returned"
          /\ invocations = Len(results)
          /\ Len(waits) = Len(results) - 1
          /\ \A i \in 0..(Len(waits) - 1) :
               waits[i + 1] =
                 IF cfg.exponential
                 THEN Min(cfg.base_delay * (2 ^ i), cfg.max_delay)
                 ELSE Min(cfg.base_delay * (i + 1), cfg.max_delay)
    /\ (FailsThenSucceeds /\ cfg = DefaultConfig /\ Len(results) = 4)
       => (invocations = 4 /\ waits = <<1, 2, 4>>)

\* C9 witness: the default configuration, three failures, then a success
C9_Witness ==
    /\ cfg = DefaultConfig
    /\ results = <<"retryable", "retryable", "retryable", "ok">>
    /\ rpc = "returned"

\* C10: an exception outside the retryable set leaves the wrapper at once,
\* on whatever attempt it occurs: no wait follows it and the operation is
\* not invoked again.
C10_FatalPropagatesAtOnce ==
    \A i \in 1..Len(results) :
        results[i] = "fatal"
        => /\ i = Len(results)
           /\ rpc = "raised"
           /\ raised = i
           /\ invocations = i
           /\ inflight = 0
           /\ Len(waits) = i - 1

\* C10 witness: a non-retryable exception on the third attempt
C10_Witness ==
    /\ Len(results) = 3
    /\ results[3] = "fatal"

\* C19: on a fresh limiter the first calls_per_minute back-to-back calls
\* return without waiting and the next one waits 60/calls_per_minute s (one
\* token's refill, Scale ticks); in general a caller that finds less than
\* one token after the refill sleeps exactly (1 - tokens) * 60/calls_per_minute
\* (OneToken - tokens ticks).
C19_WaitsForMissingFraction ==
    [][\A p \in Callers :
          (rlpc[p] # "sleeping" /\ rlpc'[p] = "sleeping") =>
              /\ tokens' < OneToken
              /\ wake'[p] - now = OneToken - tokens'
              /\ now = 0 => (granted = CallsPerMinute /\ wake'[p] = Scale)
              /\ granted' = granted]_vars

\* a caller sleeps for the missing fraction of a token
C19_Witness ==
    \E p \in Callers :
        /\ rlpc[p] = "sleeping"
        /\ tokens > 0 /\ tokens < OneToken
        /\ wake[p] - last_update = OneToken - tokens
        /\ granted >= CallsPerMinute

\* a caller inside "async with self.lock" (running or asleep in it)
InCritical(p) == lock = p /\ rlpc[p] \in {"locked", "sleeping"}

\* C20: with any number of concurrent callers of acquire() on one bucket,
\* under fair scheduling every call eventually returns; the callers queue
\* on the lock, at most one is inside the critical section (its wait
\* included) and a queued caller is in the lock's queue until it is handed
\* the lock.
C20_EveryAcquireReturns ==
    /\ [](\A p, q \in Callers : InCritical(p) /\ InCritical(q) => p = q)
    /\ [](\A p \in Callers : rlpc[p] = "queued" =>
              \E i \in 1..Len(waiters) : waiters[i] = p)
    /\ \A p \in Callers : (rlpc[p] # "idle") ~> (rlpc[p] = "idle")

\* a caller that queued behind a sleeping holder has been handed the lock
C20_Witness ==
    \E p \in Callers :
        /\ rlpc[p] = "locked" /\ lock = p
        /\ granted > CallsPerMinute
        /\ now > 0
\* the events returned by the get_events_for_alert call of the step
Returned(e) == \E i \in 1..Len(events_to_alert') : events_to_alert'[i] = e

\* C16: get_events_for_alert(N) returns an event exactly when its row is
\* in launch_events, its date is N days after today and its notified flag
\* is 0; the flag never goes back to 0, so an event marked notified is
\* returned by no later call, whatever sync_watchlist_events, save_event
\* and update_event_analysis do in between.
C16_AlertQueryAndNotifiedFlag ==
    [][/\ (lpc = "top" /\ lpc' \in {"sleep", "event"}) =>
              \A e \in Events :
                  Returned(e) <=> /\ e \in stored'
                                  /\ event_date[e] = (hour \div 24) + LAUNCH_ALERT_DAYS_BEFORE
                                  /\ ~notified[e]
       /\ \A e \in Events :
              notified[e] => notified'[e] /\ (lpc = "top" => ~Returned(e))]_vars

\* a later pass of the same day queried while a due event was already
\* marked notified and its row had been scored
C16_Witness ==
    /\ passes = 2
    /\ lpc \in {"sleep", "event"}
    /\ \E e \in Events :
           /\ notified[e] /\ e \in stored /\ e \in scored
           /\ event_date[e] = Today + LAUNCH_ALERT_DAYS_BEFORE
           /\ \A i \in 1..Len(events_to_alert) : events_to_alert[i] # e
\* C11: an outbound call rejected by an open breaker consumes no token, and
\* every invocation of the network operation is preceded by a completed
\* RateLimiter.acquire for the service (so the invocations never outnumber
\* the completed acquires).  Fails: see C11 in the results.
C11_LimiterBeforeNetwork ==
    net_calls <= granted

\* C12: every outbound call updates the health registry, so once a call has
\* returned successfully, or three have failed, the service's status is no
\* longer unknown.  Fails: see C12 in the results.
C12_CallsUpdateHealth ==
    (ok_calls > 0 \/ failed_calls >= 3) => health[Service].status # "unknown"
\* a task of send_market_alerts is inside a pass (between the fetch of the
\* candidates and the sleep)
MarketRunning(t) == mpc[t] \in {"user", "ticker"}

\* C13: at no time are two executions of a cycle's pass body running
\* concurrently, even if the loop function is started more than once.
\* Fails: see C13 in the results.
C13_OneRunningPass ==
    \A t1, t2 \in Tasks : MarketRunning(t1) /\ MarketRunning(t2) => t1 = t2

\* a step of a loop inside a pass either stays with the current candidate
\* or drops exactly that candidate and turns to the next one (position
\* `first`), or to the sleep between passes when none is left
StepsThrough(pc, pcn, list, listn, inpass, first) ==
    pc \in inpass =>
        \/ listn = list /\ pcn \in inpass
        \/ listn = Tail(list) /\ pcn = IF listn = <<>> THEN "sleep" ELSE first

\* C14: in every pass of each alert loop, a candidate (a user, a watchlist
\* item, an event) whose processing raises does not stop the pass: every
\* candidate after it in the pass's list is still processed.
C14_PassSurvivesCandidate ==
    [][/\ StepsThrough(lpc, lpc', events_to_alert, events_to_alert',
                       {"event", "watchers", "send", "mark"}, "event")
       /\ \A t \in Tasks :
              /\ StepsThrough(mpc[t], mpc'[t], m_active_users[t], m_active_users'[t],
                              {"user", "ticker"}, "user")
              /\ mpc[t] = "ticker" =>
                     /\ m_watchlist'[t] = Tail(m_watchlist[t])
                     /\ m_watchlist'[t] # <<>> => mpc'[t] = "ticker"
       /\ StepsThrough(dpc, dpc', d_active_users, d_active_users', {"user"}, "user")
       /\ StepsThrough(wpc, wpc', w_active_users, w_active_users', {"user"}, "user")]_vars

\* a watchlist item or a user of a market-alert pass has raised and a later
\* candidate of the same pass is being processed
C14_Witness ==
    /\ mpc[1] \in {"user", "ticker"}
    /\ m_failed[1]
    /\ Len(m_active_users[1]) < NumUsers

\* the positions of each loop
LoopPositions == {"off", "top", "user", "ticker", "event", "watchers", "send", "mark",
                  "sleep", "idlesleep", "errsleep"}

\* every loop that runs has begun all the passes that are followed and is at
\* the top of its loop again
AllPassesBegun ==
    /\ lpc = "off" \/ (lpc = "top" /\ passes = MaxPasses)
    /\ \A t \in Tasks : mpc[t] = "off" \/ (mpc[t] = "top" /\ m_passes[t] = MaxPasses)
    /\ dpc = "off" \/ (dpc = "top" /\ d_passes = MaxPasses)
    /\ wpc = "off" \/ (wpc = "top" /\ wtime >= WeeklyHorizon)

\* C15: in each of the four alert loops no exception inside the loop body
\* ends the loop: a pass that raises past the per-candidate handlers is
\* followed by the error sleep and then by the top of the loop, and a new
\* pass always begins (here: every loop begins each of the passes that are
\* followed and stands at the top of the loop after them).
C15_LoopsNeverEnd ==
    /\ [](/\ {lpc, dpc, wpc} \subseteq LoopPositions
          /\ \A t \in Tasks : mpc[t] \in LoopPositions)
    /\ [][/\ (lpc = "errsleep" /\ lpc' # lpc) => lpc' = "top"
          /\ (dpc = "errsleep" /\ dpc' # dpc) => dpc' = "top"
          /\ (wpc = "errsleep" /\ wpc' # wpc) => wpc' = "top"
          /\ \A t \in Tasks : (mpc[t] = "errsleep" /\ mpc'[t] # mpc[t]) => mpc'[t] = "top"
          /\ (passes' # passes /\ lpc' \notin {"event", "sleep"}) => lpc' = "errsleep"]_vars
    /\ <>AllPassesBegun

\* the launch loop's first pass raised, the error sleep is over and the
\* second pass has begun
C15_Witness ==
    /\ passes = 2
    /\ lpc \in {"event", "sleep", "errsleep"}
    /\ hour % LAUNCH_CHECK_INTERVAL_HOURS = ErrorSleepHours

\* no value occurs twice in the sequence
NoRepeat(seq) == \A i, j \in 1..Len(seq) : seq[i] = seq[j] => i = j

\* C17: across the passes of one send_weekly_reports task, also when
\* mark_weekly_report_sent or another step fails, no user is sent more than
\* one report on the same calendar day and no two reporting passes fall in
\* the same report-hour window.
C17_OneReportPerDay ==
    /\ \A u \in Users : NoRepeat(report_days[u])
    /\ NoRepeat([i \in 1..Len(w_checks) |-> w_checks[i] \div TicksPerHour])

\* a report went out, marking it failed, and the loop has checked the
\* clock again since
C17_Witness ==
    /\ wpc = "idlesleep"
    /\ Len(w_checks) = 1
    /\ w_now > w_checks[1]
    /\ \E u \in Users : /\ Len(report_days[u]) = 1
                         /\ mark_calls[u] = 1
                         /\ last_report[u] = NoReport

\* C18: for a user without positions generate_weekly_report returns
\* has_portfolio = False, and the weekly loop sends that user no message and
\* does not call mark_weekly_report_sent for that user.
C18_NoPortfolioNoReport ==
    \A u \in Users :
        ~portfolio[u] => /\ has_portfolio[u] # "yes"
                         /\ report_days[u] = <<>>
                         /\ mark_calls[u] = 0

\* a reporting pass without failures is over: it skipped a user without
\* positions and reported to a user with positions
C18_Witness ==
    /\ wpc = "sleep"
    /\ ~w_failed
    /\ \E u, v \in Users : /\ ~portfolio[u] /\ has_portfolio[u] = "no"
                            /\ portfolio[v] /\ report_days[v] # <<>>
\* C22: when the trial call made in half_open raises a counted exception,
\* the breaker returns to open, last_failure_time is set to the current
\* time and failure_count is left as it was.  Fails: see C22 in the results.
C22_TrialFailureKeepsCount ==
    [][ \A p \in Callers :
          (LeavesCall(p) /\ trial = p /\ state = "half_open" /\ outcome'[p] = "counted")
          => /\ state' = "open"
             /\ last_failure_time' = now
             /\ failure_count' = failure_count
      ]_vars

\* C27: while the breaker is closed failure_count never decreases: a
\* success in closed leaves it unchanged, it returns to 0 only through a
\* success observed in half_open, and the counted failure that brings it to
\* failure_threshold opens the breaker, whatever successes came in between
\* (so a closed breaker always has failure_count < failure_threshold).
C27_CountKeptWhileClosed ==
    /\ [](state = "closed" => failure_count < FailureThreshold)
    /\ [][ /\ state = "closed" => failure_count' >= failure_count
           /\ \A p \in Callers :
                 (LeavesCall(p) /\ outcome'[p] = "ok" /\ state = "closed")
                 => (failure_count' = failure_count /\ state' = "closed")
           /\ failure_count' < failure_count
                 => /\ state = "half_open" /\ failure_count' = 0
                    /\ \E p \in Callers : LeavesCall(p) /\ outcome'[p] = "ok"
           /\ (state = "closed" /\ failure_count' = failure_count + 1
                   /\ failure_count' >= FailureThreshold) => state' = "open"
         ]_vars

\* a call has just succeeded on a closed breaker that keeps an earlier
\* counted failure
C27_Witness ==
    /\ state = "closed"
    /\ failure_count > 0
    /\ consec = 0
    /\ \E p \in Callers : outcome[p] = "ok" /\ admitted[p] = "closed" /\ cbpc[p] = "idle"

\* C28: with concurrent callers the breaker moves half_open -> closed only
\* on the success of a call that was admitted while it was half_open; the
\* late success of a call admitted while it was closed does not close it.
\* Fails: see C28 in the results.
C28_OnlyTrialCloses ==
    [][ (state = "half_open" /\ state' = "closed")
          => \E p \in Callers : /\ LeavesCall(p) /\ outcome'[p] = "ok"
                                 /\ admitted[p] = "half_open"
      ]_vars
\* the users who watch the asset of event e
Watching(e) == {u \in Users : Asset(e) \in watch[u]}

\* C21: in a pass of the launch loop mark_event_notified(e) is executed
\* only for an event e that get_events_for_alert returned with notified = 0
\* in that pass, and only after a send attempt has completed for every user
\* found to be watching e's asset: the list of watchers found is complete,
\* it shrinks by one send at a time, and the flag is set only once it is
\* empty, never before or between the sends.
C21_MarkAfterAllSends ==
    [][ /\ (lpc = "watchers" /\ lpc' \in {"send", "mark"})
            => /\ users_watching' = Ordered(AllUsers, Watching(Head(events_to_alert)))
               /\ (lpc' = "mark" <=> users_watching' = <<>>)
        /\ (lpc = "send" /\ lpc' # lpc)
            => (lpc' = "mark" /\ Len(users_watching) = 1 /\ users_watching' = <<>>)
        /\ lpc = "send"
            => (users_watching' = users_watching \/ users_watching' = Tail(users_watching))
        /\ lpc' = "mark" => users_watching' = <<>>
        /\ \A e \in Events :
              notified'[e] # notified[e]
              => /\ lpc = "mark" /\ users_watching = <<>>
                 /\ e = Head(events_to_alert)
                 /\ ~notified[e] /\ e \in stored
                 /\ event_date[e] = Today + LAUNCH_ALERT_DAYS_BEFORE
      ]_vars

\* an event watched by every user was marked after each of them got its alert
C21_Witness ==
    /\ NumUsers > 1
    /\ \E e \in Events :
           /\ notified[e]
           /\ \A u \in Users : Asset(e) \in watch[u] /\ delivered[e][u] = 1

C23_StorageFailureAbortsPass ==
    [][ /\ (lpc = "mark" /\ launchvars' # launchvars /\ notified' = notified)
            => lpc' = "errsleep"
        /\ (lpc = "watchers" /\ lpc' \notin {"watchers", "send", "mark"})
            => lpc' = "errsleep"
        /\ \A t \in Tasks :
              (mpc[t] = "user" /\ ~m_failed[t] /\ m_failed'[t]) => mpc'[t] = "errsleep"
      ]_vars

\* C24: in each alert cycle the sleep taken after a top-level exception is
\* strictly shorter than the sleep taken after a normally completed pass
\* and is shorter than one hour.  Stated for the two loops whose clock is
\* modelled, the launch loop (hours) and the weekly loop (ticks).  Fails:
\* see C24 in the results.
C24_ErrorSleepShorter ==
    [][ /\ (lpc = "errsleep" /\ lpc' = "top")
            => /\ hour' - hour < LAUNCH_CHECK_INTERVAL_HOURS
               /\ hour' - hour < 1
        /\ (wpc = "errsleep" /\ wpc' = "top")
            => /\ wtime' - wtime < WeeklyPassSleep
               /\ wtime' - wtime < TicksPerHour
      ]_vars
\* C25: mark_success sets a registered service's status to 'healthy' and
\* its failure counter to 0; mark_failure increments the counter by one and
\* sets the status to 'unhealthy' exactly when the counter has reached 3;
\* so the status is 'unhealthy' iff at least 3 failures have occurred since
\* the last success, and a mark call for an unregistered name changes
\* nothing.
C25_HealthFollowsMarks ==
    /\ [](\A s \in Registered :
            /\ health[s].failures = fail_run[s]
            /\ health[s].status = "unhealthy" <=> fail_run[s] >= 3
            /\ marked = <<"success", s>>
                  => (health[s].status = "healthy" /\ health[s].failures = 0))
    /\ [][ /\ \A s \in Registered :
                 (marked' = <<"failure", s>> /\ execvars' # execvars)
                 => /\ health'[s].failures = health[s].failures + 1
                    /\ health'[s].status = IF health'[s].failures >= 3
                                            THEN "unhealthy" ELSE health[s].status
                    /\ \A o \in Registered \ {s} : health'[o] = health[o]
           /\ \A s \in Registered :
                 marked' = <<"success", s>>
                 => \A o \in Registered \ {s} : health'[o] = health[o]
           /\ marked'[2] \notin Registered => health' = health
         ]_vars

\* a service went unhealthy after three failures, recovered on a success
\* and has failed twice since; another is still unknown after two failures;
\* the latest call named an unregistered service
C25_Witness ==
    /\ marked = <<"failure", "binance">>
    /\ \E s, o \in Registered :
           /\ health[s].status = "healthy" /\ health[s].failures = 2
           /\ health[o].status = "unknown" /\ health[o].failures = 2
           /\ \E x \in Registered : health[x].status = "unhealthy"
\* the objects of sequence got are one and the same, and what its callers
\* did to it (count[o] for object o) is all on the object returned last
Shared(got, count) ==
    /\ \A i, j \in DOMAIN got : got[i] = got[j]
    /\ got # <<>> => count[got[Len(got)]] = Len(got)

\* C26: for every service name, a key of the global tables or not, all
\* calls of get_rate_limiter(name) return one and the same bucket and all
\* calls of get_circuit_breaker(name) one and the same breaker, so the
\* tokens taken or failures counted through one caller are seen by every
\* later caller for that service.  Fails: see C26 in the results.
C26_OneInstancePerService ==
    \A n \in LookupNames :
        /\ Shared(rl_got[n], rl_taken)
        /\ Shared(cb_got[n], cb_failed)
\* C30: once send_weekly_reports is running, every occurrence of the report
\* day/hour window contains an iteration whose day/hour check matches, so a
\* reporting pass is started in it, although consecutive checks are a full
\* sleep(3600) plus the running time of the previous iteration apart.
\* Stated for the first window after the start: once the loop has read the
\* clock at or after the end of the window, a pass has begun in the window.
\* Fails: see C30 in the results.
C30_EveryWindowChecked ==
    (wpc # "off" /\ w_now >= (WEEKLY_REPORT_HOUR + 1) * TicksPerHour)
        => \E i \in 1..Len(w_checks) : InReportWindow(w_checks[i])
====
